---- MODULE Spec2Model ----
(***************************************************************************)
(* Model of app/main.py: the intake dialogue state machine                 *)
(* (conversation_state, get_conversation_state, save_response,             *)
(* get_next_question) and the HTTP handlers that drive it.                 *)
(*                                                                         *)
(* Text is modelled as a sequence of string segments; a prompt template is *)
(* a sequence of literal segments and the placeholder segment "{name}".    *)
(* A question key is kept as a string in the state and as a sequence of    *)
(* characters where the code works on its characters (replace, title).     *)
(* Timestamps are logical: created_at / updated_at hold the ordinal of the *)
(* write that stamped them, so a stamp changes exactly when the code       *)
(* writes it.                                                              *)
(***************************************************************************)
EXTENDS Integers, Sequences, FiniteSets, TLC

VARIABLES
    settings,            \* the Settings() instance (main.py:39)
    conversation_state,  \* the process-wide session table (main.py:18)
    media,               \* MEDIA_DIR: the number of tts_<uuid>.mp3 files written (named 1..media)
    procs,               \* the request handlers in flight: where each is suspended, its locals
    ret,                 \* what the latest step returned: the response of the request it
                         \* completed or the value of the direct call it made (NoRet when
                         \* the step completed nothing)
    calls                \* history: per call_sid, how many save_response calls ran and
                         \* whether each was given the then-pending question's key

vars == <<settings, conversation_state, media, procs, ret, calls>>

-----------------------------------------------------------------------------
(* Bounds of the model *)

\* direct save_response calls are not issued on a session whose index reached this
MaxIndex == 6
\* save_response is not called once this many calls ran (over all sessions)
MaxSaves == 6
\* synthesis does not succeed once MEDIA_DIR holds this many files
MaxFiles == 2

Procs == {1, 2}

CallSids == {"CA1", "unknown"}
Utterances == {"", "Alex"}

-----------------------------------------------------------------------------
(* QUESTIONS, main.py:20-26 *)

NAME_FIELD == "{name}"

QUESTIONS == <<
    [key |-> "name",
     prompt |-> <<"Hi Mr Beazely, this is yosefina. I love Thailand and wanna learn how to love you. Whats your first name">>],
    [key |-> "date_of_birth",
     prompt |-> <<"Thank you ", NAME_FIELD, "! What's your date of birth?">>],
    [key |-> "phone", prompt |-> <<"Great! What's your phone number?">>],
    [key |-> "email", prompt |-> <<"And what's your email address?">>],
    [key |-> "reason", prompt |-> <<"Finally, what's the reason for your call today?">>]
>>

Keys == {QUESTIONS[i].key : i \in 1..Len(QUESTIONS)}

\* the characters of each key literal
KeyChars ==
    [k \in Keys |->
        CASE k = "name" -> <<"n", "a", "m", "e">>
          [] k = "date_of_birth" -> <<"d", "a", "t", "e", "_", "o", "f", "_", "b", "i", "r", "t", "h">>
          [] k = "phone" -> <<"p", "h", "o", "n", "e">>
          [] k = "email" -> <<"e", "m", "a", "i", "l">>
          [] k = "reason" -> <<"r", "e", "a", "s", "o", "n">>]

-----------------------------------------------------------------------------
(* Settings, main.py:29-36 *)

max_turns == 3

Secrets == {"dev", "s3cret", ""}
PLACEHOLDER_TTS_KEY == "your_elevenlabs_api_key_here"
None == "None"
TtsKeys == {None, PLACEHOLDER_TTS_KEY, "sk_live"}

\* the configurations the model starts from: every secret, and every kind of
\* synthesis credential (the two settings are read by unrelated code)
Settings ==
    [twilio_voice_webhook_secret : Secrets, elevenlabs_api_key : {None}]
    \cup [twilio_voice_webhook_secret : {"dev"}, elevenlabs_api_key : TtsKeys]

-----------------------------------------------------------------------------
(* dict helpers *)

EmptyDict == [k \in {} |-> ""]

DictSet(d, k, v) == [x \in DOMAIN d \cup {k} |-> IF x = k THEN v ELSE d[x]]

DictGet(d, k, default) == IF k \in DOMAIN d THEN d[k] ELSE default

-----------------------------------------------------------------------------
(* str helpers, as the code uses them *)

LowerCase == <<"a", "b", "d", "e", "f", "h", "i", "l", "m", "n", "o", "p", "r", "s", "t">>
UpperCase == <<"A", "B", "D", "E", "F", "H", "I", "L", "M", "N", "O", "P", "R", "S", "T">>

IsLetter(ch) == \E i \in 1..Len(LowerCase) : ch = LowerCase[i] \/ ch = UpperCase[i]

Upper(ch) ==
    IF \E i \in 1..Len(LowerCase) : ch = LowerCase[i]
    THEN UpperCase[CHOOSE i \in 1..Len(LowerCase) : ch = LowerCase[i]]
    ELSE ch

Lower(ch) ==
    IF \E i \in 1..Len(UpperCase) : ch = UpperCase[i]
    THEN LowerCase[CHOOSE i \in 1..Len(UpperCase) : ch = UpperCase[i]]
    ELSE ch

\* str.replace(old, new) for single characters
StrReplace(s, old, new) == [i \in 1..Len(s) |-> IF s[i] = old THEN new ELSE s[i]]

\* str.title(): a letter that follows a non-letter (or starts the string) is
\* upper-cased, every other letter lower-cased
StrTitle(s) ==
    [i \in 1..Len(s) |->
        IF i = 1 \/ ~IsLetter(s[i - 1]) THEN Upper(s[i]) ELSE Lower(s[i])]

RECURSIVE Concat(_)
Concat(chars) == IF chars = <<>> THEN "" ELSE Head(chars) \o Concat(Tail(chars))

\* sep.join(parts), parts a sequence of texts
RECURSIVE StrJoin(_, _)
StrJoin(sep, parts) ==
    IF parts = <<>> THEN <<>>
    ELSE IF Len(parts) = 1 THEN parts[1]
    ELSE parts[1] \o <<sep>> \o StrJoin(sep, Tail(parts))

\* "{name}" in prompt
HasNameField(prompt) == \E i \in 1..Len(prompt) : prompt[i] = NAME_FIELD

\* prompt.format(name=value)
StrFormat(prompt, value) ==
    [i \in 1..Len(prompt) |-> IF prompt[i] = NAME_FIELD THEN value ELSE prompt[i]]

-----------------------------------------------------------------------------
(* The dialogue state machine, main.py:43-91 *)

\* created_at is stamp 1; updated_at is 0 while the key is absent from the dict
NewState ==
    [current_question |-> 0, responses |-> EmptyDict, completed |-> FALSE,
     created_at |-> 1, updated_at |-> 0]

\* variant: the membership test is dropped, every call starts the session afresh
get_conversation_state_reset(table, call_sid) ==
    DictSet(table, call_sid, NewState)

\* the table after get_conversation_state(call_sid); the function returns table[call_sid]
get_conversation_state(table, call_sid) ==
    IF call_sid \notin DOMAIN table
    THEN DictSet(table, call_sid, NewState)
    ELSE table

\* variant: completion is decided by the max_turns setting
save_response_capped(table, call_sid, question_key, response) ==
    LET t1 == get_conversation_state(table, call_sid)
        state == t1[call_sid]
        s1 == [state EXCEPT !.responses = DictSet(@, question_key, response)]
        s2 == [s1 EXCEPT !.current_question = @ + 1]
        s3 == IF s2.current_question >= max_turns
              THEN [s2 EXCEPT !.completed = TRUE]
              ELSE s2
        s4 == [s3 EXCEPT !.updated_at = @ + 1]
    IN  [t1 EXCEPT ![call_sid] = s4]

\* variant: an empty answer is stored but the question is asked again
save_response_retry_empty(table, call_sid, question_key, response) ==
    LET t1 == get_conversation_state(table, call_sid)
        state == t1[call_sid]
        s1 == [state EXCEPT !.responses = DictSet(@, question_key, response)]
        s2 == IF response = "" THEN s1 ELSE [s1 EXCEPT !.current_question = @ + 1]
        s3 == IF s2.current_question >= Len(QUESTIONS)
              THEN [s2 EXCEPT !.completed = TRUE]
              ELSE s2
        s4 == [s3 EXCEPT !.updated_at = @ + 1]
    IN  [t1 EXCEPT ![call_sid] = s4]

\* variant: completion is set one answer late (> for >=)
save_response_strict(table, call_sid, question_key, response) ==
    LET t1 == get_conversation_state(table, call_sid)
        state == t1[call_sid]
        s1 == [state EXCEPT !.responses = DictSet(@, question_key, response)]
        s2 == [s1 EXCEPT !.current_question = @ + 1]
        s3 == IF s2.current_question > Len(QUESTIONS)
              THEN [s2 EXCEPT !.completed = TRUE]
              ELSE s2
        s4 == [s3 EXCEPT !.updated_at = @ + 1]
    IN  [t1 EXCEPT ![call_sid] = s4]

\* the table after save_response(call_sid, question_key, response)
save_response(table, call_sid, question_key, response) ==
    LET t1 == get_conversation_state(table, call_sid)
        state == t1[call_sid]
        s1 == [state EXCEPT !.responses = DictSet(@, question_key, response)]
        s2 == [s1 EXCEPT !.current_question = @ + 1]
        s3 == IF s2.current_question >= Len(QUESTIONS)
              THEN [s2 EXCEPT !.completed = TRUE]
              ELSE s2
        s4 == [s3 EXCEPT !.updated_at = @ + 1]
    IN  [t1 EXCEPT ![call_sid] = s4]

\* key.replace("_", " ").title(), for each key
ReadableKeys == [k \in Keys |-> Concat(StrTitle(StrReplace(KeyChars[k], "_", " ")))]

readable_key(key) == ReadableKeys[key]

\* variant: the summary lists the stored answers only, a missing one is left out
summary_of_stored(responses) ==
    LET stored == SelectSeq([i \in 1..Len(QUESTIONS) |-> QUESTIONS[i].key],
                            LAMBDA k : k \in DOMAIN responses)
        summary_parts ==
            [i \in 1..Len(stored) |-> <<readable_key(stored[i]) \o ": ", responses[stored[i]]>>]
    IN  <<"Perfect! I have all your information: ">>
            \o StrJoin(", ", summary_parts)
            \o <<". Thank you!">>

\* lines 70-78: the summary built from the responses dict
summary_of(responses) ==
    LET summary_parts ==
            [i \in 1..Len(QUESTIONS) |->
                <<readable_key(QUESTIONS[i].key) \o ": ",
                  DictGet(responses, QUESTIONS[i].key, "N/A")>>]
    IN  <<"Perfect! I have all your information: ">>
            \o StrJoin(", ", summary_parts)
            \o <<". Thank you!">>

\* variant: the prompt is returned as the template, never interpolated
render_prompt_raw(prompt, responses) == prompt

\* variant: the prompt is interpolated whether or not a name is stored
render_prompt_always(prompt, responses) ==
    IF HasNameField(prompt)
    THEN StrFormat(prompt, DictGet(responses, "name", ""))
    ELSE prompt

\* lines 84-87: the pending question's prompt, interpolated when it can be
render_prompt(prompt, responses) ==
    IF HasNameField(prompt) /\ "name" \in DOMAIN responses
    THEN StrFormat(prompt, responses["name"])
    ELSE prompt

\* what get_next_question returns for a session record: <<text, is_complete>>
next_question_of(state) ==
    IF state.completed
    THEN <<summary_of(state.responses), TRUE>>
    ELSE LET question_idx == state.current_question
         IN  IF question_idx < Len(QUESTIONS)
             THEN <<render_prompt(QUESTIONS[question_idx + 1].prompt, state.responses),
                    FALSE>>
             ELSE <<(<<"Thank you for calling!">>), TRUE>>

\* variant: asking for the next question also moves on to it
get_next_question_advancing(table, call_sid) ==
    LET t1 == get_conversation_state(table, call_sid)
    IN  [table |-> [t1 EXCEPT ![call_sid].current_question = @ + 1],
         result |-> next_question_of(t1[call_sid])]

\* get_next_question(call_sid): the table after the call and the pair returned
get_next_question(table, call_sid) ==
    LET t1 == get_conversation_state(table, call_sid)
    IN  [table |-> t1, result |-> next_question_of(t1[call_sid])]

-----------------------------------------------------------------------------
(* History of save_response calls *)

NoCalls == [n |-> 0, in_order |-> TRUE]

Recorded(h, table, call_sid, question_key) ==
    LET idx == IF call_sid \in DOMAIN table THEN table[call_sid].current_question ELSE 0
    IN  [h EXCEPT ![call_sid] =
            [n |-> @.n + 1,
             in_order |-> @.in_order /\ idx < Len(QUESTIONS)
                            /\ question_key = QUESTIONS[idx + 1].key]]

RECURSIVE SumSaves(_, _)
SumSaves(h, sids) ==
    IF sids = {} THEN 0
    ELSE LET c == CHOOSE x \in sids : TRUE
         IN  h[c].n + SumSaves(h, sids \ {c})

TotalSaves == SumSaves(calls, CallSids)

-----------------------------------------------------------------------------
(* Direct calls of the state-machine functions *)

CallGetConversationState(call_sid) ==
    /\ conversation_state' = get_conversation_state(conversation_state, call_sid)
    /\ ret' = [op |-> "get_conversation_state", call_sid |-> call_sid,
               value |-> conversation_state'[call_sid]]
    /\ UNCHANGED <<settings, media, procs, calls>>

CallSaveResponse(call_sid, question_key, response) ==
    /\ call_sid \in DOMAIN conversation_state =>
           conversation_state[call_sid].current_question < MaxIndex
    /\ TotalSaves < MaxSaves
    /\ conversation_state' =
           save_response(conversation_state, call_sid, question_key, response)
    /\ calls' = Recorded(calls, conversation_state, call_sid, question_key)
    /\ ret' = [op |-> "save_response", call_sid |-> call_sid, value |-> None]
    /\ UNCHANGED <<settings, media, procs>>

CallGetNextQuestion(call_sid) ==
    LET r == get_next_question(conversation_state, call_sid)
    IN  /\ conversation_state' = r.table
        /\ ret' = [op |-> "get_next_question", call_sid |-> call_sid, value |-> r.result]
        /\ UNCHANGED <<settings, media, procs, calls>>

-----------------------------------------------------------------------------

(* HTTP requests: query string, form payload, response documents *)

Missing == "<missing>"

\* values the secret query parameter of a request takes
QueryParams == {Missing} \cup Secrets

\* secret: str = Query(default="")
QuerySecret(query) == IF query = Missing THEN "" ELSE query

Forms ==
    [CallSid : {Missing, "CA1"},
     SpeechResult : {Missing, "", "Alex"},
     TranscriptionText : {Missing, "", "Alex"}]

\* form.get(field, default); form.get(field) has default None
FormGet(form, field, default) == IF form[field] = Missing THEN default ELSE form[field]

\* a or b
PyOr(a, b) == IF a = None \/ a = "" THEN b ELSE a

\* line 156: user_utterance
form_utterance(form) ==
    PyOr(PyOr(FormGet(form, "SpeechResult", None),
              FormGet(form, "TranscriptionText", None)), "")

\* lines 121, 157: call_sid
form_call_sid(form) == FormGet(form, "CallSid", "unknown")

\* not text
TextEmpty(text) == \A i \in 1..Len(text) : text[i] = ""

NoAudio == [file |-> 0, text |-> <<>>]

\* vr.play(url): the url names file `file` of MEDIA_DIR; `text` is what was synthesized
\* into that file (files are written once, under a fresh name)
Play(audio) == [verb |-> "Play", file |-> audio.file, text |-> audio.text]
Say(text) == [verb |-> "Say", text |-> text]
Gather(timeout, secret) == [verb |-> "Gather", timeout |-> timeout, secret |-> secret]

\* if audio_path: vr.play(media_url) else: vr.say(text)
PlayOrSay(audio, text) == IF audio # NoAudio THEN Play(audio) ELSE Say(text)

Idle == [pc |-> "idle"]
NoRet == [op |-> "none"]

NoForm == [CallSid |-> Missing, SpeechResult |-> Missing, TranscriptionText |-> Missing]

\* a response, with the request it answers
Response(op, query, form, status, call_sid, body) ==
    [op |-> op, query |-> query, form |-> form, status |-> status,
     call_sid |-> call_sid, body |-> body]

\* raise HTTPException(status_code=403, detail="Forbidden"): the form is not read
Forbidden(op, query) == Response(op, query, NoForm, 403, None, "Forbidden")

-----------------------------------------------------------------------------
(* synthesize_tts, main.py:245-280 *)

\* lines 246-251: the call returns None before it posts anything
tts_returns_early(text) ==
    \/ TextEmpty(text)
    \/ settings.elevenlabs_api_key = None
    \/ settings.elevenlabs_api_key = PLACEHOLDER_TTS_KEY

\* how client.post(...) and resp.raise_for_status() end (lines 271-273)
TtsOutcomes == {"ok", "status_error", "network_error"}

\* variant: only transport errors are caught, an error status propagates
tts_after_post_status_raises(outcome, text, files) ==
    IF outcome = "ok"
    THEN [audio |-> [file |-> files + 1, text |-> text], raised |-> FALSE]
    ELSE [audio |-> NoAudio, raised |-> outcome = "status_error"]

\* lines 270-280, once the post returned: the audio is written to a new file and
\* its path returned, or the exception is caught and None returned
tts_after_post(outcome, text, files) ==
    IF outcome = "ok"
    THEN [audio |-> [file |-> files + 1, text |-> text], raised |-> FALSE]
    ELSE [audio |-> NoAudio, raised |-> FALSE]

\* what a direct call of synthesize_tts returned; posted: it made the outbound call
SynthReturn(text, audio, posted, raised) ==
    [op |-> "synthesize_tts", text |-> text, value |-> audio,
     posted |-> posted, raised |-> raised]

\* synthesize_tts(text) called directly, up to its return or its suspension
CallSynthesizeTts(p, text) ==
    /\ procs[p] = Idle
    /\ IF tts_returns_early(text)
       THEN /\ ret' = SynthReturn(text, NoAudio, FALSE, FALSE)
            /\ UNCHANGED procs
       ELSE /\ ret' = NoRet
            /\ procs' = [procs EXCEPT ![p] =
                    [pc |-> "tts", handler |-> "synthesize_tts", text |-> text]]
    /\ UNCHANGED <<settings, conversation_state, media, calls>>

-----------------------------------------------------------------------------
(* voice_incoming, main.py:115-147 *)

\* lines 126-147, once synthesize_tts returned audio_path
incoming_finish(p, query, form, call_sid, first_question, audio_path) ==
    /\ ret' = Response("voice_incoming", query, form, 200, call_sid,
                <<PlayOrSay(audio_path, first_question),
                  Gather(15, QuerySecret(query)),
                  Say(<<"I'm having trouble hearing you. Please try again or call back later.">>)>>)
    /\ procs' = [procs EXCEPT ![p] = Idle]

\* lines 120-124, once the form is parsed
incoming_form(p, form) ==
    LET query == procs[p].query
        call_sid == form_call_sid(form)
        r == get_next_question(conversation_state, call_sid)
        first_question == r.result[1]
    IN  /\ conversation_state' = r.table
        /\ UNCHANGED <<settings, media, calls>>
        /\ IF tts_returns_early(first_question)
           THEN incoming_finish(p, query, form, call_sid, first_question, NoAudio)
           ELSE /\ procs' = [procs EXCEPT ![p] =
                        [pc |-> "tts", handler |-> "voice_incoming", query |-> query,
                         form |-> form, call_sid |-> call_sid, text |-> first_question,
                         is_complete |-> r.result[2], vr |-> <<>>]]
                /\ ret' = NoRet

-----------------------------------------------------------------------------
(* voice_handle_gather, main.py:150-210 *)

\* lines 198-210, once the second synthesize_tts returned fallback_audio
gather_finish(p, query, form, call_sid, vr) ==
    /\ ret' = Response("voice_handle_gather", query, form, 200, call_sid,
                vr \o <<Say(<<"Thank you for calling. Have a great day!">>)>>)
    /\ procs' = [procs EXCEPT ![p] = Idle]

\* variant: the second Gather waits as long as the first
gather_reprompt_same_timeout(vr, query, current_question, fallback_audio) ==
    vr \o <<PlayOrSay(fallback_audio, current_question), Gather(15, QuerySecret(query))>>

gather_reprompt(vr, query, current_question, fallback_audio) ==
    vr \o <<PlayOrSay(fallback_audio, current_question), Gather(10, QuerySecret(query))>>

\* lines 169-197, once the first synthesize_tts returned audio_path;
\* table is the session table at that moment
gather_respond(p, table, query, form, call_sid, next_prompt, is_complete, audio_path) ==
    LET vr1 == <<PlayOrSay(audio_path, next_prompt)>>
    IN  IF ~is_complete
        THEN LET vr2 == vr1 \o <<Gather(15, QuerySecret(query)),
                                 Say(<<"I didn't catch that. Let me ask again.">>)>>
                 r == get_next_question(table, call_sid)
                 current_question == r.result[1]
             IN  /\ conversation_state' = r.table
                 /\ IF tts_returns_early(current_question)
                    THEN gather_finish(p, query, form, call_sid,
                             gather_reprompt(vr2, query, current_question, NoAudio))
                    ELSE /\ procs' = [procs EXCEPT ![p] =
                                 [pc |-> "tts", handler |-> "voice_handle_gather",
                                  query |-> query, form |-> form, call_sid |-> call_sid,
                                  text |-> current_question,
                                  is_complete |-> is_complete, vr |-> vr2]]
                         /\ ret' = NoRet
        ELSE /\ conversation_state' = table
             /\ gather_finish(p, query, form, call_sid, vr1)

\* variant: past the last question the index is clamped to it, not tested
gather_record_clamped(table, call_sid, user_utterance) ==
    LET t1 == get_conversation_state(table, call_sid)
        current_question_idx == t1[call_sid].current_question
        clamped == IF current_question_idx < Len(QUESTIONS)
                   THEN current_question_idx ELSE Len(QUESTIONS) - 1
        question_key == QUESTIONS[clamped + 1].key
    IN  [table |-> save_response(t1, call_sid, question_key, user_utterance),
         saved |-> question_key]

\* variant: the answer is stored under the key of the question asked next
gather_record_next_key(table, call_sid, user_utterance) ==
    LET t1 == get_conversation_state(table, call_sid)
        current_question_idx == t1[call_sid].current_question
    IN  IF current_question_idx < Len(QUESTIONS)
        THEN LET following == IF current_question_idx + 1 < Len(QUESTIONS)
                              THEN current_question_idx + 1 ELSE current_question_idx
                 question_key == QUESTIONS[following + 1].key
             IN  [table |-> save_response(t1, call_sid, question_key, user_utterance),
                  saved |-> question_key]
        ELSE [table |-> t1, saved |-> None]

\* lines 159-164: the answer is stored under the pending question's key, when
\* there is a pending question; the table afterwards and the key used (None: no call)
gather_record(table, call_sid, user_utterance) ==
    LET t1 == get_conversation_state(table, call_sid)
        current_question_idx == t1[call_sid].current_question
    IN  IF current_question_idx < Len(QUESTIONS)
        THEN LET question_key == QUESTIONS[current_question_idx + 1].key
             IN  [table |-> save_response(t1, call_sid, question_key, user_utterance),
                  saved |-> question_key]
        ELSE [table |-> t1, saved |-> None]

\* variant: the next prompt is computed from the session as it was before the
\* answer was recorded
gather_form_stale_prompt(p, form) ==
    LET query == procs[p].query
        user_utterance == form_utterance(form)
        call_sid == form_call_sid(form)
        rec == gather_record(conversation_state, call_sid, user_utterance)
        r == get_next_question(conversation_state, call_sid)
        next_prompt == r.result[1]
    IN  /\ calls' = IF rec.saved # None
                    THEN Recorded(calls, conversation_state, call_sid, rec.saved)
                    ELSE calls
        /\ UNCHANGED <<settings, media>>
        /\ IF tts_returns_early(next_prompt)
           THEN gather_respond(p, rec.table, query, form, call_sid, next_prompt,
                               r.result[2], NoAudio)
           ELSE /\ conversation_state' = rec.table
                /\ procs' = [procs EXCEPT ![p] =
                        [pc |-> "tts", handler |-> "voice_handle_gather", query |-> query,
                         form |-> form, call_sid |-> call_sid, text |-> next_prompt,
                         is_complete |-> r.result[2], vr |-> <<>>]]
                /\ ret' = NoRet

\* lines 155-167, once the form is parsed
gather_form(p, form) ==
    LET query == procs[p].query
        user_utterance == form_utterance(form)
        call_sid == form_call_sid(form)
        rec == gather_record(conversation_state, call_sid, user_utterance)
        r == get_next_question(rec.table, call_sid)
        next_prompt == r.result[1]
    IN  /\ calls' = IF rec.saved # None
                    THEN Recorded(calls, conversation_state, call_sid, rec.saved)
                    ELSE calls
        /\ UNCHANGED <<settings, media>>
        /\ IF tts_returns_early(next_prompt)
           THEN gather_respond(p, r.table, query, form, call_sid, next_prompt,
                               r.result[2], NoAudio)
           ELSE /\ conversation_state' = r.table
                /\ procs' = [procs EXCEPT ![p] =
                        [pc |-> "tts", handler |-> "voice_handle_gather", query |-> query,
                         form |-> form, call_sid |-> call_sid, text |-> next_prompt,
                         is_complete |-> r.result[2], vr |-> <<>>]]
                /\ ret' = NoRet

-----------------------------------------------------------------------------
(* The steps of a webhook request *)

\* the request reaches the handler: the secret is compared, then the handler
\* suspends on `await request.form()` (lines 117-120, 152-155)
Receive(p, handler, query) ==
    /\ procs[p] = Idle
    /\ IF QuerySecret(query) # settings.twilio_voice_webhook_secret
       THEN /\ ret' = Forbidden(handler, query)
            /\ UNCHANGED procs
       ELSE /\ ret' = NoRet
            /\ procs' = [procs EXCEPT ![p] =
                    [pc |-> "form", handler |-> handler, query |-> query]]
    /\ UNCHANGED <<settings, conversation_state, media, calls>>

\* the request is one whose handler calls save_response
WouldSave(handler, form) ==
    LET call_sid == form_call_sid(form)
    IN  /\ handler = "voice_handle_gather"
        /\ call_sid \in DOMAIN conversation_state =>
               conversation_state[call_sid].current_question < Len(QUESTIONS)

\* request.form() returns; the handler runs to its next suspension or to its end
FormParsed(p, form) ==
    /\ procs[p].pc = "form"
    /\ WouldSave(procs[p].handler, form) => TotalSaves < MaxSaves
    /\ IF procs[p].handler = "voice_incoming"
       THEN incoming_form(p, form)
       ELSE gather_form(p, form)

\* an exception that leaves a handler: the framework answers 500
ServerError(p, me) ==
    /\ ret' = Response(me.handler, me.query, me.form, 500, me.call_sid,
                       "Internal Server Error")
    /\ procs' = [procs EXCEPT ![p] = Idle]

\* client.post(...) returns (lines 270-280) and the caller of synthesize_tts
\* runs on to its next suspension or to its end
TtsReturns(p, outcome) ==
    /\ procs[p].pc = "tts"
    /\ outcome = "ok" => media < MaxFiles
    /\ LET me == procs[p]
           r == tts_after_post(outcome, me.text, media)
           audio == r.audio
       IN  /\ media' = IF outcome = "ok" THEN media + 1 ELSE media
           /\ UNCHANGED <<settings, calls>>
           /\ IF me.handler = "synthesize_tts"
              THEN /\ ret' = SynthReturn(me.text, audio, TRUE, r.raised)
                   /\ procs' = [procs EXCEPT ![p] = Idle]
                   /\ UNCHANGED conversation_state
              ELSE IF r.raised
              THEN /\ ServerError(p, me)
                   /\ UNCHANGED conversation_state
              ELSE IF me.handler = "voice_incoming"
              THEN /\ incoming_finish(p, me.query, me.form, me.call_sid, me.text, audio)
                   /\ UNCHANGED conversation_state
              ELSE IF me.vr = <<>>
              THEN gather_respond(p, conversation_state, me.query, me.form, me.call_sid,
                                  me.text, me.is_complete, audio)
              ELSE /\ gather_finish(p, me.query, me.form, me.call_sid,
                                    gather_reprompt(me.vr, me.query, me.text, audio))
                   /\ UNCHANGED conversation_state

-----------------------------------------------------------------------------
(* The endpoints that never suspend *)

\* main.py:94-96
health ==
    /\ ret' = [op |-> "health", status |-> 200, body |-> [ok |-> TRUE]]
    /\ UNCHANGED <<settings, conversation_state, media, procs, calls>>

\* main.py:99-104
get_conversation_data ==
    /\ ret' = [op |-> "get_conversation_data", status |-> 200,
               body |-> [total_conversations |-> Cardinality(DOMAIN conversation_state),
                         conversations |-> conversation_state]]
    /\ UNCHANGED <<settings, conversation_state, media, procs, calls>>

\* main.py:107-112
\* variant: the lookup goes through get_conversation_state, as the webhooks do
get_caller_data_lazy(call_sid) ==
    LET table == get_conversation_state(conversation_state, call_sid)
    IN  /\ ret' = [op |-> "get_caller_data", status |-> 200, call_sid |-> call_sid,
                   body |-> table[call_sid]]
        /\ conversation_state' = table
        /\ UNCHANGED <<settings, media, procs, calls>>

get_caller_data(call_sid) ==
    /\ ret' = IF call_sid \in DOMAIN conversation_state
              THEN [op |-> "get_caller_data", status |-> 200, call_sid |-> call_sid,
                    body |-> conversation_state[call_sid]]
              ELSE [op |-> "get_caller_data", status |-> 404, call_sid |-> call_sid,
                    body |-> "Caller not found"]
    /\ UNCHANGED <<settings, conversation_state, media, procs, calls>>

\* main.py:213-218
serve_media(filename) ==
    /\ ret' = IF filename \in 1..media
              THEN [op |-> "serve_media", status |-> 200, filename |-> filename]
              ELSE [op |-> "serve_media", status |-> 404, filename |-> filename]
    /\ UNCHANGED <<settings, conversation_state, media, procs, calls>>

\* main.py:283-289
\* variant: the fallback answers every request, whatever its secret
voice_fallback_open(query) ==
    /\ ret' = Response("voice_fallback", query, NoForm, 200, None,
                <<Say(<<"Sorry, the service is temporarily unavailable. Please try again later.">>)>>)
    /\ UNCHANGED <<settings, conversation_state, media, procs, calls>>

voice_fallback(query) ==
    /\ ret' = IF QuerySecret(query) # settings.twilio_voice_webhook_secret
              THEN Forbidden("voice_fallback", query)
              ELSE Response("voice_fallback", query, NoForm, 200, None,
                     <<Say(<<"Sorry, the service is temporarily unavailable. Please try again later.">>)>>)
    /\ UNCHANGED <<settings, conversation_state, media, procs, calls>>

-----------------------------------------------------------------------------
(* Specifications *)

Webhooks == {"voice_incoming", "voice_handle_gather"}

DefaultSettings ==
    [twilio_voice_webhook_secret |-> "dev", elevenlabs_api_key |-> None]

InitState ==
    /\ conversation_state = EmptyDict
    /\ media = 0
    /\ procs = [p \in Procs |-> Idle]
    /\ ret = NoRet
    /\ calls = [c \in CallSids |-> NoCalls]

\* the state-machine functions called directly, keys not validated
InitApi == settings = DefaultSettings /\ InitState

NextApi ==
    \/ \E c \in CallSids : CallGetConversationState(c)
    \/ \E c \in CallSids, k \in Keys, u \in Utterances : CallSaveResponse(c, k, u)
    \/ \E c \in CallSids : CallGetNextQuestion(c)

SpecApi == InitApi /\ [][NextApi]_vars

\* the texts synthesize_tts is called with directly
SynthTexts == {<<"">>, <<"Hello">>}

\* the service behind its endpoints, requests delivered one at a time
Init == settings \in Settings /\ InitState

AllIdle == \A p \in Procs : procs[p] = Idle

Next ==
    \/ \E h \in Webhooks, q \in QueryParams : AllIdle /\ Receive(1, h, q)
    \/ \E f \in Forms : FormParsed(1, f)
    \/ \E o \in TtsOutcomes : TtsReturns(1, o)
    \/ \E t \in SynthTexts : AllIdle /\ CallSynthesizeTts(1, t)
    \/ \E c \in CallSids : AllIdle /\ CallGetConversationState(c)
    \/ \E c \in CallSids : AllIdle /\ CallGetNextQuestion(c)
    \/ AllIdle /\ health
    \/ AllIdle /\ get_conversation_data
    \/ \E c \in CallSids : AllIdle /\ get_caller_data(c)
    \/ \E f \in 1..(MaxFiles + 1) : AllIdle /\ serve_media(f)
    \/ \E q \in QueryParams : AllIdle /\ voice_fallback(q)

Spec == Init /\ [][Next]_vars

\* webhook requests handled concurrently: a request is received while another
\* is suspended on request.form() or on the synthesis call
LiveSettings ==
    [twilio_voice_webhook_secret |-> "dev", elevenlabs_api_key |-> "sk_live"]

\* the concurrent requests all belong to one call
RaceForms == {f \in Forms : f.CallSid = "CA1" /\ f.TranscriptionText = Missing}

InitRace == settings = LiveSettings /\ InitState

NextRace ==
    \/ \E p \in Procs, h \in Webhooks : Receive(p, h, "dev")
    \/ \E p \in Procs, f \in RaceForms : FormParsed(p, f)
    \/ \E p \in Procs, o \in TtsOutcomes : TtsReturns(p, o)

SpecRace == InitRace /\ [][NextRace]_vars

-----------------------------------------------------------------------------
(* Properties *)

N == Len(QUESTIONS)

Index(table, c) == IF c \in DOMAIN table THEN table[c].current_question ELSE 0

\* the index, the answers and the completion flag of a session record
Core(state) == <<state.current_question, state.responses, state.completed>>

IsWebhookReply(op) == ret.op = op /\ ret.status = 200

\* the utterance a speech-captured request carries
ExpectedUtterance(form) ==
    IF form.SpeechResult \notin {Missing, ""} THEN form.SpeechResult
    ELSE IF form.TranscriptionText \notin {Missing, ""} THEN form.TranscriptionText
    ELSE ""

SecondPrompt(name) == <<"Thank you ", name, "! What's your date of birth?">>

\* C1: from a fresh session, record_answer calls given the question keys in
\* definition order make the session completed exactly when N of them ran (so
\* not after max_turns of them), and a completed session stays completed under
\* every later operation.
C1_CompletesAfterN ==
    /\ [](\A c \in DOMAIN conversation_state :
            calls[c].in_order =>
                (conversation_state[c].completed <=> calls[c].n = N))
    /\ [][\A c \in DOMAIN conversation_state :
            conversation_state[c].completed =>
                c \in DOMAIN conversation_state' /\ conversation_state'[c].completed]_vars

C1_Witness ==
    \E c \in DOMAIN conversation_state :
        /\ calls[c].in_order /\ calls[c].n = N
        /\ conversation_state[c].completed
        /\ N > max_turns

\* C2: no step lowers a session's pending-question index, and a step in which
\* record_answer ran on a session raises its index by exactly one, whatever the
\* answer text (the empty string included).
C2_IndexAdvancesByOne ==
    [][\A c \in CallSids :
          /\ c \in DOMAIN conversation_state => c \in DOMAIN conversation_state'
          /\ Index(conversation_state', c) >= Index(conversation_state, c)
          /\ calls'[c].n # calls[c].n =>
                 Index(conversation_state', c) = Index(conversation_state, c) + 1]_vars

C2_Witness ==
    /\ ret.op = "save_response"
    /\ conversation_state[ret.call_sid].current_question >= 2
    /\ \E k \in DOMAIN conversation_state[ret.call_sid].responses :
           conversation_state[ret.call_sid].responses[k] = ""

\* C3: a session is completed exactly when its index is at least N, and
\* next_step never returns the generic closing line.
C3_CompletedIffIndexAtLeastN ==
    /\ \A c \in DOMAIN conversation_state :
           conversation_state[c].completed <=> conversation_state[c].current_question >= N
    /\ ret.op = "get_next_question" =>
           ret.value # <<(<<"Thank you for calling!">>), TRUE>>

C3_Witness ==
    /\ ret.op = "get_next_question"
    /\ conversation_state[ret.call_sid].current_question > N

\* C4: under any interleaving of call-initiated and speech-captured requests of
\* a call, an answer once stored under a question key is never replaced, and
\* the session holds as many answers as record_answer calls ran on it.
C4_KeyWrittenOnce ==
    /\ [](\A c \in DOMAIN conversation_state :
            Cardinality(DOMAIN conversation_state[c].responses) = calls[c].n)
    /\ [][\A c \in DOMAIN conversation_state :
            /\ c \in DOMAIN conversation_state'
            /\ \A k \in DOMAIN conversation_state[c].responses :
                   /\ k \in DOMAIN conversation_state'[c].responses
                   /\ conversation_state'[c].responses[k]
                          = conversation_state[c].responses[k]]_vars

C4_Witness ==
    /\ \A p \in Procs : procs[p].pc = "tts" /\ procs[p].handler = "voice_handle_gather"
    /\ \E c \in DOMAIN conversation_state :
           /\ conversation_state[c].completed
           /\ conversation_state[c].responses["name"] # conversation_state[c].responses["reason"]

\* C5: a webhook request whose secret parameter is missing or differs from the
\* configured secret is answered 403 and goes no further (it is never found
\* suspended inside a handler), whatever the configured secret.
C5_BadSecretRejected ==
    /\ ret.op \in Webhooks /\ (ret.query = Missing \/ ret.query # settings.twilio_voice_webhook_secret)
           => ret.status = 403
    /\ \A p \in Procs :
           procs[p] # Idle /\ procs[p].handler \in Webhooks =>
               procs[p].query # Missing /\ procs[p].query = settings.twilio_voice_webhook_secret

\* C6: a step changes the index, answers or completion flag of an existing
\* session only by running record_answer on that session, and then changes no
\* other session; get_or_create_session, next_step, the call-initiated handler,
\* the inspection, media and fallback endpoints leave every existing session as
\* it is; no step removes a session.
C6_OnlyRecordAnswerMutates ==
    [][/\ \A c \in DOMAIN conversation_state :
            /\ c \in DOMAIN conversation_state'
            /\ Core(conversation_state'[c]) # Core(conversation_state[c]) =>
                   calls'[c].n = calls[c].n + 1
            /\ calls'[c] # calls[c] =>
                   \A d \in DOMAIN conversation_state \ {c} :
                       conversation_state'[d] = conversation_state[d]
       /\ ret'.op \in {"get_conversation_state", "get_next_question", "voice_incoming",
                        "health", "get_conversation_data", "get_caller_data",
                        "serve_media", "voice_fallback"} =>
              \A c \in DOMAIN conversation_state :
                  conversation_state'[c] = conversation_state[c]]_vars

C6_Witness ==
    /\ IsWebhookReply("voice_incoming")
    /\ conversation_state[ret.call_sid].current_question >= 1
    /\ Cardinality(DOMAIN conversation_state) = 2

\* C7: the call-initiated reply for a call with no answer yet delivers the
\* first question's template as written; the reply to the first
\* speech-captured request of a call, carrying utterance u, leaves the session
\* with answers {name: u} and index 1 and delivers the second question's
\* template with {name} replaced by u.
C7_EndToEnd ==
    /\ IsWebhookReply("voice_incoming") /\ calls[ret.call_sid].n = 0 =>
           ret.body[1].text = QUESTIONS[1].prompt
    /\ IsWebhookReply("voice_handle_gather") /\ calls[ret.call_sid].n = 1 =>
           LET u == ExpectedUtterance(ret.form)
               state == conversation_state[ret.call_sid]
           IN  /\ DOMAIN state.responses = {"name"}
               /\ state.responses["name"] = u
               /\ state.current_question = 1
               /\ ret.body[1].text = SecondPrompt(u)

C7_Witness ==
    /\ IsWebhookReply("voice_handle_gather")
    /\ calls[ret.call_sid].n = 1
    /\ ret.form.SpeechResult = "Alex"
    /\ ret.body[1].text = SecondPrompt("Alex")

ValueOrNA(responses, key) == IF key \in DOMAIN responses THEN responses[key] ELSE "N/A"

ExpectedSummary(responses) ==
    <<"Perfect! I have all your information: ",
      "Name: ", ValueOrNA(responses, "name"), ", ",
      "Date Of Birth: ", ValueOrNA(responses, "date_of_birth"), ", ",
      "Phone: ", ValueOrNA(responses, "phone"), ", ",
      "Email: ", ValueOrNA(responses, "email"), ", ",
      "Reason: ", ValueOrNA(responses, "reason"),
      ". Thank you!">>

\* C8: next_step on a completed session returns the summary, terminal: every
\* question in definition order, its readable key then the stored answer or
\* "N/A"; a repeated call returns the same.
C8_SummaryOfCompleted ==
    /\ [](ret.op = "get_next_question" /\ conversation_state[ret.call_sid].completed =>
            ret.value = <<ExpectedSummary(conversation_state[ret.call_sid].responses), TRUE>>)
    /\ [][/\ ret.op = "get_next_question" /\ ret'.op = "get_next_question"
          /\ ret'.call_sid = ret.call_sid
          /\ conversation_state[ret.call_sid].completed
          => ret'.value = ret.value]_vars

C8_Witness ==
    /\ ret.op = "get_next_question"
    /\ conversation_state[ret.call_sid].completed
    /\ "name" \notin DOMAIN conversation_state[ret.call_sid].responses
    /\ "date_of_birth" \in DOMAIN conversation_state[ret.call_sid].responses

\* C9: next_step on a session that is not completed and whose pending template
\* holds {name} returns, not terminal, the template with the stored name in
\* place of {name}, or the template as written when no name is stored.
C9_NameInterpolation ==
    ret.op = "get_next_question" =>
        LET state == conversation_state[ret.call_sid]
        IN  /\ ~state.completed
            /\ state.current_question < N
            /\ \E i \in 1..Len(QUESTIONS[state.current_question + 1].prompt) :
                   QUESTIONS[state.current_question + 1].prompt[i] = "{name}"
            => ret.value =
                  IF "name" \in DOMAIN state.responses
                  THEN <<SecondPrompt(state.responses["name"]), FALSE>>
                  ELSE <<SecondPrompt("{name}"), FALSE>>

C9_Witness ==
    /\ ret.op = "get_next_question"
    /\ conversation_state[ret.call_sid].current_question = 1
    /\ "name" \notin DOMAIN conversation_state[ret.call_sid].responses

\* C10: get_or_create_session on a call identifier not in the table adds
\* exactly one entry, with index 0, no answers and completed false, and returns
\* it; on one in the table it returns the existing record and changes nothing.
C10_GetOrCreate ==
    [][ret'.op = "get_conversation_state" =>
          LET c == ret'.call_sid
          IN  IF c \notin DOMAIN conversation_state
              THEN /\ Core(ret'.value) = <<0, EmptyDict, FALSE>>
                   /\ DOMAIN conversation_state' = DOMAIN conversation_state \cup {c}
                   /\ conversation_state'[c] = ret'.value
                   /\ \A d \in DOMAIN conversation_state :
                          conversation_state'[d] = conversation_state[d]
              ELSE /\ ret'.value = conversation_state[c]
                   /\ conversation_state' = conversation_state]_vars

C10_Witness ==
    /\ ret.op = "get_conversation_state"
    /\ conversation_state[ret.call_sid].current_question >= 1
    /\ Cardinality(DOMAIN conversation_state) = 2

-----------------------------------------------------------------------------
(* The fallback webhook *)

ApologyDoc ==
    <<Say(<<"Sorry, the service is temporarily unavailable. Please try again later.">>)>>

\* C11 as stated: the fallback webhook answers every request it receives with
\* the static apology line.
C11_FallbackAlwaysApologises ==
    ret.op = "voice_fallback" => ret.status = 200 /\ ret.body = ApologyDoc

\* C11: the fallback webhook answers a request whose secret parameter (an
\* absent one counts as the empty string) equals the configured secret with
\* the static apology line and nothing else, and any other request with 403;
\* in both cases it reads no form and touches no session, file or request in
\* flight.
C11_FallbackApologisesWhenAuthorised ==
    /\ [](ret.op = "voice_fallback" =>
            IF QuerySecret(ret.query) = settings.twilio_voice_webhook_secret
            THEN ret.status = 200 /\ ret.body = ApologyDoc
            ELSE ret.status = 403)
    /\ [][ret'.op = "voice_fallback" /\ ret' # ret =>
            UNCHANGED <<conversation_state, media, procs, calls>>]_vars

C11_Witness ==
    /\ ret.op = "voice_fallback"
    /\ ret.status = 200
    /\ ret.query = "s3cret"
    /\ conversation_state # EmptyDict

-----------------------------------------------------------------------------
(* Speech synthesis failures *)

KeyUnusable ==
    settings.elevenlabs_api_key \in {None, PLACEHOLDER_TTS_KEY}

\* the synthesizer call that ends in this step made its outbound call and the
\* call failed: no file was written
PostFailed(p) == procs[p].pc = "tts" /\ procs'[p] # procs[p] /\ media' = media

\* C12: synthesize_tts returns None and never raises when the text is empty,
\* when the credential is absent or the placeholder, or when the outbound call
\* fails, and in the first two cases it makes no outbound call; a webhook
\* handler whose synthesis gave None speaks the prompt text where it would
\* have played the audio and still answers with a normal document.
C12_SynthesisFailureIsNotFatal ==
    /\ [](ret.op = "synthesize_tts" =>
            /\ ~ret.raised
            /\ TextEmpty(ret.text) \/ KeyUnusable => ret.value = NoAudio /\ ~ret.posted)
    /\ [](\A p \in Procs :
            procs[p].pc = "tts" => ~KeyUnusable /\ ~TextEmpty(procs[p].text))
    /\ [](ret.op \in Webhooks =>
            /\ ret.status \in {200, 403}
            /\ ret.status = 200 /\ KeyUnusable =>
                   \A i \in 1..Len(ret.body) :
                       /\ ret.body[i].verb # "Play"
                       /\ i \in {1, 4} => ret.body[i].verb = "Say")
    /\ [][\A p \in Procs :
            PostFailed(p) =>
                LET me == procs[p]
                IN  IF me.handler = "synthesize_tts"
                    THEN ret' = SynthReturn(me.text, NoAudio, TRUE, FALSE)
                    ELSE IF me.handler = "voice_incoming"
                    THEN ret'.status = 200 /\ ret'.body[1] = Say(me.text)
                    ELSE IF me.vr # <<>>
                    THEN ret'.status = 200 /\ ret'.body[4] = Say(me.text)
                    ELSE IF me.is_complete
                    THEN ret'.status = 200 /\ ret'.body[1] = Say(me.text)
                    ELSE procs'[p].pc = "tts" /\ procs'[p].vr[1] = Say(me.text)]_vars

\* a speech-captured reply whose first synthesis failed and whose second one
\* succeeded
C12_Witness ==
    /\ IsWebhookReply("voice_handle_gather")
    /\ Len(ret.body) = 6
    /\ ret.body[1].verb = "Say"
    /\ ret.body[4].verb = "Play"

-----------------------------------------------------------------------------
(* Unknown call identifiers *)

\* the call identifier a webhook request read from its form in this step
SidRead(p) == IF procs'[p] = Idle THEN ret'.call_sid ELSE procs'[p].call_sid

\* C13: the single-session inspection endpoint answers 404 exactly for a call
\* identifier that has no session, and the lookup creates none; a webhook
\* request never answers 404, and once it has read its call identifier a
\* session exists for it, created in that step when there was none.
C13_UnknownCallSid ==
    /\ [][ret'.op = "get_caller_data" =>
            /\ ret'.status = (IF ret'.call_sid \in DOMAIN conversation_state
                              THEN 200 ELSE 404)
            /\ ret'.status = 200 => ret'.body = conversation_state[ret'.call_sid]
            /\ conversation_state' = conversation_state]_vars
    /\ [](ret.op \in Webhooks => ret.status # 404)
    /\ [][\A p \in Procs :
            procs[p].pc = "form" /\ procs'[p] # procs[p] =>
                /\ SidRead(p) \in DOMAIN conversation_state'
                /\ DOMAIN conversation_state' = DOMAIN conversation_state \cup {SidRead(p)}
                /\ ret' # NoRet => ret'.status = 200]_vars
    /\ [](\A p \in Procs :
            procs[p].pc = "tts" /\ procs[p].handler \in Webhooks =>
                procs[p].call_sid \in DOMAIN conversation_state)

\* a lookup of "CA1" answered 404 while the only session is the one a webhook
\* request created for a call without identifier
C13_Witness ==
    /\ ret.op = "get_caller_data"
    /\ ret.status = 404
    /\ ret.call_sid = "CA1"
    /\ DOMAIN conversation_state = {"unknown"}

-----------------------------------------------------------------------------
(* The terminal state on the webhook path *)

ClosingLine == Say(<<"Thank you for calling. Have a great day!">>)

\* C14: under webhook events the pending index stays within 0..N; a
\* speech-captured request on a session whose index is N calls save_response
\* not at all and leaves the session (index, answers, completed, updated_at)
\* as it was, and its reply delivers the summary as a terminal prompt.
C14_TerminalIsAbsorbing ==
    /\ [](\A c \in DOMAIN conversation_state :
            conversation_state[c].current_question \in 0..N)
    /\ [][\A p \in Procs :
            /\ procs[p].pc = "form" /\ procs[p].handler = "voice_handle_gather"
            /\ procs'[p] # procs[p]
            /\ SidRead(p) \in DOMAIN conversation_state
            /\ conversation_state[SidRead(p)].current_question = N
            => /\ conversation_state' = conversation_state
               /\ calls' = calls]_vars
    /\ [](\A p \in Procs :
            /\ procs[p].pc = "tts" /\ procs[p].handler = "voice_handle_gather"
            /\ conversation_state[procs[p].call_sid].current_question = N
            => /\ procs[p].vr = <<>>
               /\ procs[p].is_complete
               /\ procs[p].text =
                      ExpectedSummary(conversation_state[procs[p].call_sid].responses))
    /\ [](IsWebhookReply("voice_handle_gather")
          /\ conversation_state[ret.call_sid].current_question = N
          => /\ Len(ret.body) = 2
             /\ ret.body[1].text =
                    ExpectedSummary(conversation_state[ret.call_sid].responses)
             /\ ret.body[2] = ClosingLine)

\* the reply to a request that carried "Alex" to a completed session whose
\* last answer is, and stays, the empty string
C14_Witness ==
    /\ IsWebhookReply("voice_handle_gather")
    /\ conversation_state[ret.call_sid].current_question = N
    /\ form_utterance(ret.form) = "Alex"
    /\ conversation_state[ret.call_sid].responses["reason"] = ""

-----------------------------------------------------------------------------
(* The shape of a speech-captured reply *)

IsPrompt(verb, text) == verb.verb \in {"Play", "Say"} /\ verb.text = text

RepromptLine == Say(<<"I didn't catch that. Let me ask again.">>)

\* C15: a speech-captured reply holds Gather verbs exactly when the prompt it
\* delivers is not terminal. Not terminal: the prompt, a Gather, the re-prompt
\* line, the prompt again, a second Gather with a shorter timeout, the closing
\* line. Terminal: the prompt and the closing line, no Gather.
C15_ReplyShape ==
    IsWebhookReply("voice_handle_gather") =>
        LET next == next_question_of(conversation_state[ret.call_sid])
            next_prompt == next[1]
            is_complete == next[2]
            body == ret.body
        IN  /\ is_complete = conversation_state[ret.call_sid].completed
            /\ (\E i \in 1..Len(body) : body[i].verb = "Gather") <=> ~is_complete
            /\ body[Len(body)] = ClosingLine
            /\ IF is_complete
               THEN /\ Len(body) = 2
                    /\ IsPrompt(body[1], next_prompt)
               ELSE /\ Len(body) = 6
                    /\ IsPrompt(body[1], next_prompt)
                    /\ body[2].verb = "Gather"
                    /\ body[3] = RepromptLine
                    /\ IsPrompt(body[4], next_prompt)
                    /\ body[5].verb = "Gather"
                    /\ body[5].timeout < body[2].timeout
                    /\ body[2].secret = QuerySecret(ret.query)
                    /\ body[5].secret = QuerySecret(ret.query)

\* a reply with both Gather verbs whose prompt was played the first time and
\* spoken the second
C15_Witness ==
    /\ IsWebhookReply("voice_handle_gather")
    /\ Len(ret.body) = 6
    /\ ret.body[1].verb = "Play"
    /\ ret.body[4].verb = "Say"
    /\ conversation_state[ret.call_sid].current_question = N - 1

-----------------------------------------------------------------------------
(* Requests of one call that overlap *)

\* C16: in every speech-captured reply that holds a re-prompt, the text
\* delivered after the re-prompt line is the text of the reply's primary
\* prompt, however the requests of the call interleave.
C16_RepromptIsPrimaryPrompt ==
    IsWebhookReply("voice_handle_gather") /\ Len(ret.body) = 6 =>
        ret.body[4].text = ret.body[1].text

\* the keys of the first i questions, in definition order
FirstKeys(i) == {QUESTIONS[j].key : j \in 1..i}

\* a speech-captured request whose form is parsed in this step
GatherParsed(p) ==
    /\ procs[p].pc = "form" /\ procs[p].handler = "voice_handle_gather"
    /\ procs'[p] # procs[p]

\* C17: no update is lost when requests of one call overlap. The step of a
\* speech-captured request that follows its form parsing reads the pending
\* index i, stores its utterance under question i's key, leaves the index at
\* i + 1 and computes its prompt from that session, with nothing in between;
\* so after k such requests, overlapping or not, the session holds k answers
\* under the first k keys and its index is k.
C17_NoLostUpdate ==
    /\ [](\A c \in DOMAIN conversation_state :
            LET state == conversation_state[c]
            IN  /\ state.current_question = calls[c].n
                /\ calls[c].in_order
                /\ DOMAIN state.responses = FirstKeys(calls[c].n)
                /\ Cardinality(DOMAIN state.responses) = calls[c].n)
    /\ [][\A p \in Procs :
            GatherParsed(p) /\ Index(conversation_state, SidRead(p)) < N =>
                LET c == SidRead(p)
                    i == Index(conversation_state, c)
                    state == conversation_state'[c]
                    form == IF procs'[p] = Idle THEN ret'.form ELSE procs'[p].form
                IN  /\ state.current_question = i + 1
                    /\ calls'[c].n = calls[c].n + 1
                    /\ state.responses[QUESTIONS[i + 1].key] = form_utterance(form)
                    /\ \A k \in FirstKeys(i) :
                           state.responses[k] = conversation_state[c].responses[k]
                    /\ procs'[p].pc = "tts"
                    /\ procs'[p].text = next_question_of(state)[1]]_vars

\* both requests are suspended on their first synthesis call, the second
\* having been parsed while the first was suspended, at index 1 and 2;
\* their answers are stored under the second and the third key
C17_Witness ==
    /\ \A p \in Procs :
           /\ procs[p].pc = "tts"
           /\ procs[p].handler = "voice_handle_gather"
           /\ procs[p].vr = <<>>
    /\ procs[1].form.SpeechResult = "Alex"
    /\ procs[2].form.SpeechResult = ""
    /\ conversation_state["CA1"].current_question = 3
    /\ conversation_state["CA1"].responses["date_of_birth"] = "Alex"
    /\ conversation_state["CA1"].responses["phone"] = ""

-----------------------------------------------------------------------------
(* The answers of a session *)

\* C18: in every state reached through requests to the endpoints, the keys of
\* a session's answers are the keys of the first `current_question` questions;
\* so "name" is answered once the index is at least 1, and a completed session
\* has an answer for every question.
C18_AnswersAreFirstKeys ==
    \A c \in DOMAIN conversation_state :
        LET state == conversation_state[c]
        IN  /\ state.current_question \in 0..N
            /\ DOMAIN state.responses = FirstKeys(state.current_question)
            /\ state.current_question >= 1 => "name" \in DOMAIN state.responses
            /\ state.completed => DOMAIN state.responses = Keys

\* a speech-captured reply that completed the call without identifier while
\* call "CA1" has three answers
C18_Witness ==
    /\ IsWebhookReply("voice_handle_gather")
    /\ ret.call_sid = "unknown"
    /\ conversation_state["unknown"].completed
    /\ "CA1" \in DOMAIN conversation_state
    /\ DOMAIN conversation_state["CA1"].responses = {"name"}

-----------------------------------------------------------------------------
(* The first prompt of a call *)

\* C19: every authenticated call-initiated request, with or without a call
\* identifier and whatever requests came before, is answered with the first
\* question's template followed by a Gather.
C19_IncomingDeliversFirstPrompt ==
    IsWebhookReply("voice_incoming") =>
        /\ IsPrompt(ret.body[1], QUESTIONS[1].prompt)
        /\ ret.body[2].verb = "Gather"

====
